---- MODULE Spec2Model ----
(***************************************************************************)
(* GoSynthPop: the per-area simulated-annealing optimiser                  *)
(* (src/simulatedAnnealing.go) and the coordinator that fans it out over   *)
(* the areas and streams the results to two sinks (src/parallel.go).       *)
(*                                                                         *)
(* The state machines of this module:                                      *)
(*   Spec     one call of syntheticPopulation (one anneal of one area);    *)
(*   SpecS3   the same call on the instance of scenario S3;                *)
(*   SpecPar  one call of parallelRun (coordinator, workers, writer);      *)
(*   SpecSeed two runs on one area, followed draw by draw;                 *)
(*   SpecFn   one call of a library function on a pair of vectors;         *)
(*   SpecCli  one run of cliMain up to its call of parallelRun.            *)
(*                                                                         *)
(* Numbers.  Attribute values and aggregates are float64 in the code.      *)
(* They are modelled as integers (multiples of one unit) that pass through *)
(* RoundF after every addition and subtraction: IEEE-754 round to nearest, *)
(* ties to even, with the 53-bit significand scaled down to MantBits bits  *)
(* so that rounding happens inside the bounded value range.  Fitness       *)
(* values are fixed-point hundredths (FitScale), temperatures fixed-point  *)
(* thousandths (TempScale).                                                *)
(***************************************************************************)
EXTENDS Integers, Sequences, FiniteSets, TLC

\* ------------------------------------------------------------------ bounds

MaxTotal == 3        \* largest population count N of an area
MaxIter == 3         \* largest config.MaxIterations
MaxChange == 2       \* largest config.Change
MaxWindow == 2       \* largest config.WindowSize
MantBits == 3        \* significand bits of the scaled-down float
MaxAreas == 5        \* largest number of areas handed to parallelRun
MaxCPU == 2          \* largest runtime.NumCPU()
MaxPop == 2          \* largest population count of an area in parallelRun
MaxSeed == 2         \* largest seed, and largest clock reading
RngMod == 8          \* number of states of a random source
SeedPop == 2         \* population count of the area of a seeded run
SeedIter == 2        \* draws of replace followed in a seeded run
ScenarioBits == 4    \* further significand bits of an instance held in tenths
MaxValue == 2        \* largest entry of a vector handed to a library function
MaxLen == 2          \* largest length of such a vector

\* ------------------------------------------------------- program constants

maxAttempts == 100   \* replace: candidate draws per proposal

\* Distance metric types: iota counts from EPSILON, the first line of the
\* const block.
KL_DIVERGENCE == 1
CHI_SQUARED == 2
EUCLIDEAN == 3
NORM_EUCLIDEAN == 4
MANHATTEN == 5

FitScale == 100      \* fitness fixed point: 1.00 is 100
TempScale == 1000    \* temperature and probability fixed point: 1.0 is 1000

\* ------------------------------------------------------------------- state

\* syntheticPopulation: parameters
VARIABLES microdata, constraint, config

\* --------------------------------------------------------------- arithmetic

Abs(x) == IF x < 0 THEN -x ELSE x

Min2(a, b) == IF a < b THEN a ELSE b

Max2(a, b) == IF a > b THEN a ELSE b

RECURSIVE Pow2(_)
Pow2(n) == IF n = 0 THEN 1 ELSE 2 * Pow2(n - 1)

\* The spacing of representable numbers around magnitude m: 1 while m fits
\* in MantBits bits, doubling with every further bit.
\* The significand bits in force.  The instance of scenario S3 is held in
\* tenths of a unit (constraint 7.3 is 73); float64 holds its aggregates
\* exactly, which takes ScenarioBits further bits at that scale.
SignificandBits ==
    IF constraint.ID = "S3" THEN MantBits + ScenarioBits ELSE MantBits

RECURSIVE Ulp(_)
Ulp(m) == IF m < Pow2(SignificandBits) THEN 1 ELSE 2 * Ulp(m \div 2)

\* Round to nearest representable, ties to the even significand.
RoundMag(m) ==
    LET u == Ulp(m)
        lo == (m \div u) * u
        r == m - lo
    IN  IF r = 0 THEN lo
        ELSE IF 2 * r < u THEN lo
        ELSE IF 2 * r > u THEN lo + u
        ELSE IF (lo \div u) % 2 = 0 THEN lo ELSE lo + u

RoundF(x) == IF x < 0 THEN -RoundMag(-x) ELSE RoundMag(x)

\* float64 a + b and a - b
FAdd(a, b) == RoundF(a + b)

FSub(a, b) == RoundF(a - b)

\* floor(sqrt(n)) by bisection
RECURSIVE SqrtBetween(_, _, _)
SqrtBetween(n, lo, hi) ==
    IF lo >= hi THEN lo
    ELSE LET mid == (lo + hi + 1) \div 2
         IN  IF mid * mid <= n THEN SqrtBetween(n, mid, hi)
             ELSE SqrtBetween(n, lo, mid - 1)

ISqrt(n) == SqrtBetween(n, 0, Min2(n, 46340))

\* ------------------------------------------------------------- divergences

\* 1000 * ln(n + EPSILON) for the integers an aggregate or a constraint can
\* hold; n = 0 gives 1000 * ln(1e-10).
LnTable ==
    <<0, 693, 1099, 1386, 1609, 1792, 1946, 2079, 2197, 2303, 2398, 2485,
      2565, 2639, 2708, 2773, 2833, 2890, 2944, 2996, 3045, 3091, 3135, 3178,
      3219, 3258, 3296, 3332, 3367, 3401, 3434, 3466, 3497, 3526, 3555, 3584,
      3611, 3638, 3664, 3689, 3714, 3738, 3761, 3784, 3807, 3829, 3850, 3871,
      3892, 3912, 3932, 3951, 3970, 3989, 4007, 4025, 4043, 4060, 4078, 4094,
      4111, 4127, 4143, 4159, 4174, 4190, 4205, 4220, 4234, 4248, 4263, 4277,
      4290, 4304, 4317, 4331, 4344, 4357, 4369, 4382, 4394, 4407, 4419, 4431,
      4443, 4454, 4466, 4477, 4489, 4500, 4511, 4522, 4533, 4543, 4554, 4564>>

LnMilli(n) == IF n <= 0 THEN -23026 ELSE LnTable[Min2(n, Len(LnTable))]

RECURSIVE SumOver(_, _)
SumOver(f, n) == IF n = 0 THEN 0 ELSE f[n] + SumOver(f, n - 1)

\* KLDivergence: sum of p * ln(p / q), p = constraints[i] + EPSILON,
\* q = testData[i] + EPSILON.  A zero constraint contributes
\* 1e-10 * ln(...), which is 0 at this resolution.
KLDivergence(constraints, testData) ==
    SumOver([i \in 1..Len(constraints) |->
                (constraints[i] * (LnMilli(constraints[i]) - LnMilli(testData[i]))
                    * FitScale) \div 1000],
            Len(constraints))

\* A distance that counts only the attributes where testData falls short
\* of the constraint.
EuclideanShortfall(constraints, testData) ==
    ISqrt(FitScale * FitScale *
          SumOver([i \in 1..Len(constraints) |->
                      IF testData[i] < constraints[i]
                      THEN (testData[i] - constraints[i]) * (testData[i] - constraints[i])
                      ELSE 0],
                  Len(constraints)))

\* EuclideanDistance: sqrt of the sum of squared differences.
EuclideanDistance(constraints, testData) ==
    ISqrt(FitScale * FitScale *
          SumOver([i \in 1..Len(constraints) |->
                      (testData[i] - constraints[i]) * (testData[i] - constraints[i])],
                  Len(constraints)))

\* ManhattanDistance: sum of absolute differences.
ManhattanDistance(constraints, testData) ==
    FitScale * SumOver([i \in 1..Len(constraints) |->
                           Abs(testData[i] - constraints[i])],
                       Len(constraints))

RECURSIVE Pow10(_)
Pow10(n) == IF n = 0 THEN 1 ELSE 10 * Pow10(n - 1)

\* ChiSquaredDistance: sum of (observed - expected)^2 / expected, both
\* offset by EPSILON.  With a zero constraint the divisor is EPSILON.
ChiSquaredDistance(constraints, testData) ==
    SumOver([i \in 1..Len(constraints) |->
                LET diff == testData[i] - constraints[i]
                IN  IF constraints[i] = 0
                    THEN IF diff = 0 THEN 0 ELSE diff * diff * FitScale * Pow10(10)
                    ELSE (diff * diff * FitScale) \div constraints[i]],
            Len(constraints))

\* NormalizedEuclideanDistance: differences divided by the constraint; a
\* zero constraint adds 1000 * testData[i]^2 instead.
NormalizedEuclideanDistance(constraints, testData) ==
    ISqrt(SumOver([i \in 1..Len(constraints) |->
                      LET diff == testData[i] - constraints[i]
                      IN  IF constraints[i] = 0
                          THEN 1000 * testData[i] * testData[i] * FitScale * FitScale
                          ELSE (diff * diff * FitScale * FitScale)
                                   \div (constraints[i] * constraints[i])],
                  Len(constraints)))

\* Distance: the metric switch, KL divergence by default.
Distance(metric, constraints, testData) ==
    CASE metric = CHI_SQUARED -> ChiSquaredDistance(constraints, testData)
      [] metric = EUCLIDEAN -> EuclideanDistance(constraints, testData)
      [] metric = NORM_EUCLIDEAN -> NormalizedEuclideanDistance(constraints, testData)
      [] metric = MANHATTEN -> ManhattanDistance(constraints, testData)
      [] OTHER -> KLDivergence(constraints, testData)

\* math.Exp(d / temp) in thousandths, d a fitness difference and temp a
\* temperature.  For d >= 0 (temp > 0) the value is at least 1; for d < 0
\* it is read from a table in steps of a quarter.
ExpTable ==
    <<1000, 779, 607, 472, 368, 287, 223, 174, 135, 105, 82, 64, 50, 39, 30,
      24, 18, 14, 11, 9, 7, 5, 4, 3, 2, 2, 2, 1, 1, 1>>

ExpMilli(d, t) ==
    IF d >= 0 THEN TempScale + (((d * TempScale) \div FitScale) * TempScale) \div t
    ELSE LET q == ((-d) * TempScale * 4) \div (FitScale * t)
         IN  IF q >= Len(ExpTable) THEN 0 ELSE (ExpTable[q + 1] * TempScale) \div 1000

\* -------------------------------------------------------------- feasibility

\* isValidMicrodata: no non-zero value where the constraint is zero.
\* The test with "> 0" for "!= 0".
isValidMicrodataPositive(mdValues, constraints) ==
    \A i \in 1..Len(constraints) : ~(constraints[i] = 0 /\ mdValues[i] > 0)

isValidMicrodata(mdValues, constraints) ==
    \A i \in 1..Len(constraints) : ~(constraints[i] = 0 /\ mdValues[i] # 0)

\* ------------------------------------------------------------------ inputs

\* Microdata pools ([]MicroData): an ID and a value vector per record.
Pool1 ==
    << [ID |-> "m1", Values |-> <<1, 0>>],
       [ID |-> "m2", Values |-> <<3, 0>>],
       [ID |-> "m3", Values |-> <<1, 1>>] >>

Pool2 ==
    << [ID |-> "m1", Values |-> <<3, 1>>],
       [ID |-> "m2", Values |-> <<1, 0>>] >>

Pools == {Pool1, Pool2}

\* Area constraints (ConstraintData): ID, Values, Total.
ConstraintSet ==
    [ID : {"E01"}, Values : {<<7, 0>>, <<4, 0>>, <<5, 1>>, <<2, 2>>},
     Total : 1..MaxTotal]

\* AnnealingConfig.  Temperatures, CoolingRate, ReheatFactor and
\* MinImprovement are thousandths, FitnessThreshold a fitness value.
BaseConfig ==
    [InitialTemp |-> 2 * TempScale,
     MinTemp |-> 0,
     CoolingRate |-> TempScale \div 2,
     ReheatFactor |-> (8 * TempScale) \div 10,
     FitnessThreshold |-> 0,
     MinImprovement |-> 0,
     MaxIterations |-> MaxIter,
     WindowSize |-> MaxWindow,
     Change |-> MaxChange,
     Distance |-> "EUCLIDEAN"]

\* The base configuration, every configuration that differs from it in
\* one parameter, and one whose change budget outlasts the window.
ConfigSet ==
    {BaseConfig}
    \cup {[BaseConfig EXCEPT !.MinTemp = TempScale \div 2]}
    \cup {[BaseConfig EXCEPT !.FitnessThreshold = 4 * FitScale]}
    \cup {[BaseConfig EXCEPT !.MinImprovement = TempScale \div 2]}
    \cup {[BaseConfig EXCEPT !.MinImprovement = TempScale \div 2,
                             !.Change = MaxChange + 1]}
    \cup {[BaseConfig EXCEPT !.MaxIterations = n] : n \in 1..MaxIter}
    \cup {[BaseConfig EXCEPT !.WindowSize = w] : w \in 1..MaxWindow}
    \cup {[BaseConfig EXCEPT !.Change = c] : c \in 1..MaxChange}
    \cup {[BaseConfig EXCEPT !.Distance = "KL_DIVERGENCE"]}

\* Scenario S3 in tenths of a unit: records of value 2 and 3, one
\* constraint of 7.3, population count 3.
PoolS3 ==
    << [ID |-> "two", Values |-> <<20>>],
       [ID |-> "three", Values |-> <<30>>] >>

ConstraintS3 == [ID |-> "S3", Values |-> <<73>>, Total |-> 3]

\* rng.Float64(): a draw in [0, 1), in thousandths.
Uniforms == {0, TempScale \div 2, TempScale - 1}

VARIABLES
    \* syntheticPopulation: locals
    pc, synthPopTotals, synthPopIDs, fitness, changes, temp,
    improvementWindow, windowIndex, bestFitness, bestSynthPopTotals,
    bestSynthPopIDs, iteration, synthPopResults,
    \* history: what the last call of replace did (and the pass of the loop
    \* it was made in, and whether that pass evaluated the stagnation
    \* check), every (fitness,
    \* aggregate, selection) held since initialisation, and the clause
    \* that ended the loop
    lastReplace, held, exitClause,
    \* parallelRun: parameters and worker count
    constraints, numWorkers,
    \* parallelRun: channels (contents, and whether closed)
    jobs, jobsClosed, resultsChan, resultsClosed, errChan,
    \* parallelRun: the coordinator (the function body itself)
    pcCoord, feedIndex, coordErr, returned,
    \* parallelRun: worker goroutines
    pcWorker, workerRes,
    \* parallelRun: writer goroutine
    pcWriter, writerRes, writerRow,
    \* the sinks: the rows accepted so far, the progress counter, and the
    \* first write failure
    rows, processed, firstFailure,
    \* history: the pairs <<random source, worker>> of the draws made
    rngUsers,
    \* parallelRun: progress reporter goroutine, and the count it last
    \* printed
    pcReporter, reported,
    \* two runs of parallelRun on one area with one worker, followed draw by
    \* draw: the configuration they share and, per run, the state of each
    \* random source and the draws made
    seedConfig, seedRuns,
    \* the library functions applied to a pair of vectors: the vectors and
    \* what the call returned
    vecA, vecB, outcome,
    \* cliMain: the configuration file, the headers of the two input
    \* tables, the position in the function, the configuration held, and
    \* the configuration handed to parallelRun
    cliFile, cliHeaders, cliPc, cliConfig, cliRun

annealVars ==
    <<microdata, constraint, config, pc, synthPopTotals, synthPopIDs, fitness,
      changes, temp, improvementWindow, windowIndex, bestFitness,
      bestSynthPopTotals, bestSynthPopIDs, iteration, synthPopResults,
      lastReplace, held, exitClause>>

parVars ==
    <<constraints, numWorkers, jobs, jobsClosed, resultsChan, resultsClosed,
      errChan, pcCoord, feedIndex, coordErr, returned, pcWorker, workerRes,
      pcWriter, writerRes, writerRow, rows, processed, firstFailure, rngUsers,
      pcReporter, reported>>

seedVars == <<seedConfig, seedRuns>>

fnVars == <<vecA, vecB, outcome>>

cliVars == <<cliFile, cliHeaders, cliPc, cliConfig, cliRun>>

vars == <<annealVars, parVars, seedVars, fnVars, cliVars>>

\* ---------------------------------------------------------- initPopulation

\* The indices of the records that pass the pre-filter.
\* The pool after the anneal has written its aggregate: the aggregate is
\* a slice of its own (make, line 267), newValues and oldValues alias
\* records of the pool and are only read, so no write reaches the pool.
\* The variant has the aggregate share its storage with the first selected
\* record.
SharedPoolAliased(md, ids, totals) ==
    IF Len(ids) = 0 THEN md ELSE [md EXCEPT ![ids[1]].Values = totals]

SharedPoolAfter(md, ids, totals) == md

\* initPopulation without the isValidMicrodata filter.
validIndicesUnfiltered(c, md) == 1..Len(md)

validIndices(c, md) ==
    {i \in 1..Len(md) : isValidMicrodata(md[i].Values, c.Values)}

\* The running totals after the first n draws: each value is added to the
\* total in draw order, one float64 addition per record and attribute.
RECURSIVE TotalsOf(_, _, _, _)
TotalsOf(md, ids, n, width) ==
    IF n = 0 THEN [i \in 1..width |-> 0]
    ELSE LET before == TotalsOf(md, ids, n - 1, width)
         IN  [i \in 1..width |-> FAdd(before[i], md[ids[n]].Values[i])]

\* initPopulation for one sequence of draws from the valid indices.
\* initPopulation with a loop that stops one draw early.
initPopulationShort(c, md, draws) ==
    [totals |-> TotalsOf(md, draws, Len(draws) - 1, Len(c.Values)),
     ids |-> SubSeq(draws, 1, Len(draws) - 1)]

initPopulation(c, md, draws) ==
    [totals |-> TotalsOf(md, draws, Len(draws), Len(c.Values)),
     ids |-> draws]

\* ------------------------------------------------------------------ replace

\* A retry loop without the isValidMicrodata test: any record can be drawn.
CandidatesUnchecked(c, md) == 1..Len(md)

\* The candidates the retry loop can end with: any valid record, or 0 when
\* all maxAttempts draws hit records that are not valid.
Candidates(c, md) ==
    IF maxAttempts = 0 THEN {0}
    ELSE validIndices(c, md)
         \cup (IF validIndices(c, md) # 1..Len(md) THEN {0} ELSE {})

\* "Update aggregates": totals - old + new, cell by cell.
ApplyDelta(totals, oldValues, newValues) ==
    [i \in 1..Len(totals) |-> FAdd(FSub(totals[i], oldValues[i]), newValues[i])]

\* "Revert changes": totals - new + old, cell by cell.
RevertDelta(totals, oldValues, newValues) ==
    [i \in 1..Len(totals) |-> FAdd(FSub(totals[i], newValues[i]), oldValues[i])]

\* The Metropolis criterion proper: a proposal that is not better is
\* reverted only when the draw exceeds exp((fitness - newFitness) / temp).
RejectsMetropolis(fit, newFitness, t, u) ==
    newFitness >= fit /\ ExpMilli(fit - newFitness, t) < u

\* The condition of the Metropolis "if": TRUE means revert.
Rejects(fit, newFitness, t, u) ==
    newFitness >= fit \/ ExpMilli(fit - newFitness, t) < u

\* replace for one outcome of its draws: candidate j (0: none found),
\* slot k, uniform u.
replace(md, c, totals, ids, fit, t, j, k, u) ==
    IF j = 0
    THEN [totals |-> totals, ids |-> ids, fitness |-> fit, flag |-> FALSE,
          kind |-> "skipped", newFitness |-> fit]
    ELSE LET newValues == md[j].Values
             oldValues == md[ids[k]].Values
             applied == ApplyDelta(totals, oldValues, newValues)
             newFitness == Distance(EUCLIDEAN, c.Values, applied)
         IN  IF Rejects(fit, newFitness, t, u)
             THEN [totals |-> RevertDelta(applied, oldValues, newValues),
                   ids |-> ids, fitness |-> fit, flag |-> FALSE,
                   kind |-> "rejected", newFitness |-> newFitness]
             ELSE [totals |-> applied, ids |-> [ids EXCEPT ![k] = j],
                   fitness |-> newFitness, flag |-> TRUE,
                   kind |-> "accepted", newFitness |-> newFitness]

\* ------------------------------------------------------ syntheticPopulation

\* The float64 comparison (worst - best) / worst < num / den.  A zero
\* windowWorst makes the quotient NaN or +Inf, and the comparison false.
\* The stagnation test with the comparison turned round.
RelativeImprovementAbove(worst, best, num, den) ==
    IF worst > 0 THEN (worst - best) * den > num * worst
    ELSE IF worst = 0 THEN FALSE
    ELSE (worst - best) * den < num * worst

RelativeImprovementBelow(worst, best, num, den) ==
    IF worst > 0 THEN (worst - best) * den < num * worst
    ELSE IF worst = 0 THEN FALSE
    ELSE (worst - best) * den > num * worst

WindowBest(w) == CHOOSE v \in {w[i] : i \in DOMAIN w} : \A i \in DOMAIN w : v <= w[i]

WindowWorst(w) == CHOOSE v \in {w[i] : i \in DOMAIN w} : \A i \in DOMAIN w : v >= w[i]

\* Best tracking with "<=" for "<": a later tie replaces the snapshot.
TrackBestOrEqual(r, best) ==
    IF r.fitness <= best.fitness
    THEN [fitness |-> r.fitness, totals |-> r.totals, ids |-> r.ids, updated |-> TRUE]
    ELSE [fitness |-> best.fitness, totals |-> best.totals, ids |-> best.ids,
          updated |-> FALSE]

\* Best tracking that takes the snapshot after every call of replace.
\* The fitness it records is the one replace computed for its proposal.
TrackLastProposal(r, best) ==
    [fitness |-> r.newFitness, totals |-> r.totals, ids |-> r.ids, updated |-> TRUE]

\* Best tracking whose snapshot shares its storage with the current
\* aggregate and selection instead of copying them.
TrackBestAliased(r, best) ==
    [fitness |-> IF r.fitness < best.fitness THEN r.fitness ELSE best.fitness,
     totals |-> r.totals, ids |-> r.ids,
     updated |-> r.fitness < best.fitness]

\* "Update best solution", lines 335-338: the best snapshot after a call of
\* replace that returned r, given the snapshot before it.
TrackBest(r, best) ==
    IF r.fitness < best.fitness
    THEN [fitness |-> r.fitness, totals |-> r.totals, ids |-> r.ids, updated |-> TRUE]
    ELSE [fitness |-> best.fitness, totals |-> best.totals, ids |-> best.ids,
          updated |-> FALSE]

\* A loop condition without the iteration bound.
LoopGuardNoMaxIterations ==
    changes > 0 /\ temp > config.MinTemp

\* The loop condition of the main optimisation loop.
LoopGuard ==
    iteration < config.MaxIterations /\ changes > 0 /\ temp > config.MinTemp

\* The locals of syntheticPopulation before its first statement.
AnnealEntry ==
    /\ pc = "start"
    /\ synthPopTotals = <<>>
    /\ synthPopIDs = <<>>
    /\ fitness = 0
    /\ changes = 0
    /\ temp = 0
    /\ improvementWindow = <<>>
    /\ windowIndex = 0
    /\ bestFitness = 0
    /\ bestSynthPopTotals = <<>>
    /\ bestSynthPopIDs = <<>>
    /\ iteration = 0
    /\ synthPopResults = [area |-> "", synthpop_totals |-> <<>>, ids |-> <<>>,
                          constraint_totals |-> <<>>, fitness |-> 0, population |-> 0]
    /\ lastReplace = [kind |-> "none"]
    /\ held = <<>>
    /\ exitClause = "none"

AnnealInit ==
    /\ microdata \in Pools
    /\ constraint \in ConstraintSet
    /\ config \in ConfigSet
    /\ AnnealEntry

\* The call of scenario S3.
S3Init ==
    /\ microdata = PoolS3
    /\ constraint = ConstraintS3
    /\ config \in ConfigSet
    /\ AnnealEntry

\* Lines 309-327: initPopulation, the initial fitness, the annealing
\* parameters, the window and the first best snapshot.  initPopulation
\* panics when no record is valid.
Initialise ==
    /\ pc = "start"
    /\ IF validIndices(constraint, microdata) = {}
       THEN /\ pc' = "panic"
            /\ UNCHANGED <<synthPopTotals, synthPopIDs, fitness, changes, temp,
                           improvementWindow, windowIndex, bestFitness,
                           bestSynthPopTotals, bestSynthPopIDs, held, microdata>>
       ELSE \E draws \in [1..constraint.Total -> validIndices(constraint, microdata)] :
              LET pop == initPopulation(constraint, microdata, draws)
                  fit == KLDivergence(constraint.Values, pop.totals)
              IN  /\ synthPopTotals' = pop.totals
                  /\ synthPopIDs' = pop.ids
                  /\ fitness' = fit
                  /\ changes' = config.Change
                  /\ temp' = config.InitialTemp
                  /\ improvementWindow' =
                        [i \in 0..(config.WindowSize - 1) |-> IF i = 0 THEN fit ELSE 0]
                  /\ windowIndex' = 1
                  /\ bestFitness' = fit
                  /\ bestSynthPopTotals' = pop.totals
                  /\ bestSynthPopIDs' = pop.ids
                  /\ held' = <<[fitness |-> fit, totals |-> pop.totals, ids |-> pop.ids]>>
                  /\ microdata' = SharedPoolAfter(microdata, pop.ids, pop.totals)
                  /\ pc' = "loop"
    /\ UNCHANGED <<constraint, config, iteration, synthPopResults,
                   lastReplace, exitClause>>
    /\ UNCHANGED <<parVars, seedVars, fnVars, cliVars>>

\* Line 350: the stagnation check runs if iteration >= config.WindowSize,
\* iteration counting the passes from 0.
StagnationChecked(it, cfg) == it >= cfg.WindowSize

\* A reheat that multiplies by ReheatFactor instead of 1 + ReheatFactor.
ReheatByFactorOnly(t, cfg) ==
    Max2((t * cfg.ReheatFactor) \div TempScale, cfg.InitialTemp \div 10)

\* Line 362: math.Max(temp*(1+config.ReheatFactor), config.InitialTemp*0.1)
Reheat(t, cfg) ==
    Max2((t * (TempScale + cfg.ReheatFactor)) \div TempScale,
         cfg.InitialTemp \div 10)

\* One pass of the main optimisation loop, lines 330-375, for one outcome
\* of the draws of replace.
Iterate ==
    /\ pc = "loop"
    /\ LoopGuard
    /\ \E j \in Candidates(constraint, microdata), k \in 1..Len(synthPopIDs),
          u \in Uniforms :
        \E r \in {replace(microdata, constraint, synthPopTotals, synthPopIDs,
                         fitness, temp, j, k, u)} :
        \E best \in {TrackBest(r, [fitness |-> bestFitness,
                                    totals |-> bestSynthPopTotals,
                                    ids |-> bestSynthPopIDs])} :
        LET crossed == best.updated /\ best.fitness <= config.FitnessThreshold
            \* line 346 indexes the window with windowIndex
            outOfRange == windowIndex >= config.WindowSize
            window == IF crossed \/ outOfRange THEN improvementWindow
                      ELSE [improvementWindow EXCEPT ![windowIndex] = r.fitness]
            checked == StagnationChecked(iteration, config)
            stagnant == checked /\ RelativeImprovementBelow(
                            WindowWorst(window), WindowBest(window),
                            config.MinImprovement, TempScale)
            deep == checked /\ RelativeImprovementBelow(
                            WindowWorst(window), WindowBest(window),
                            config.MinImprovement, 10 * TempScale)
            reheated == IF stagnant THEN Reheat(temp, config) ELSE temp
        IN  /\ synthPopTotals' = r.totals
            /\ synthPopIDs' = r.ids
            /\ microdata' = SharedPoolAfter(microdata, synthPopIDs, r.totals)
            /\ fitness' = r.fitness
            /\ bestFitness' = best.fitness
            /\ bestSynthPopTotals' = best.totals
            /\ bestSynthPopIDs' = best.ids
            /\ lastReplace' = [kind |-> r.kind, totals |-> synthPopTotals,
                               ids |-> synthPopIDs, fitness |-> fitness,
                               changes |-> changes, temp |-> temp, u |-> u,
                               newFitness |-> r.newFitness,
                               iteration |-> iteration,
                               checked |-> ~crossed /\ ~outOfRange /\ checked]
            /\ held' = Append(held, [fitness |-> r.fitness, totals |-> r.totals,
                                     ids |-> r.ids])
            /\ improvementWindow' = window
            /\ IF crossed
               THEN /\ pc' = "exit"
                    /\ exitClause' = "FitnessThreshold"
                    /\ UNCHANGED <<windowIndex, temp, changes, iteration>>
               ELSE IF outOfRange
               THEN /\ pc' = "panic"
                    /\ UNCHANGED <<windowIndex, temp, changes, iteration, exitClause>>
               ELSE IF stagnant /\ deep
               THEN /\ pc' = "exit"
                    /\ exitClause' = "stagnation"
                    /\ windowIndex' = (windowIndex + 1) % config.WindowSize
                    /\ temp' = reheated
                    /\ UNCHANGED <<changes, iteration>>
               ELSE /\ pc' = "loop"
                    /\ windowIndex' = (windowIndex + 1) % config.WindowSize
                    /\ temp' = (reheated * config.CoolingRate) \div TempScale
                    /\ changes' = IF r.flag THEN changes ELSE changes - 1
                    /\ iteration' = iteration + 1
                    /\ UNCHANGED exitClause
    /\ UNCHANGED <<constraint, config, synthPopResults>>
    /\ UNCHANGED <<parVars, seedVars, fnVars, cliVars>>

\* Lines 377-388: the result is built from the best snapshot.
\* The result with the ids loop stopping one entry early.
PrepareResultsShort ==
    [area |-> constraint.ID,
     synthpop_totals |-> bestSynthPopTotals,
     ids |-> [i \in 1..(Len(bestSynthPopIDs) - 1) |->
                 microdata[bestSynthPopIDs[i]].ID],
     constraint_totals |-> constraint.Values,
     fitness |-> bestFitness,
     population |-> constraint.Total]

PrepareResults ==
    [area |-> constraint.ID,
     synthpop_totals |-> bestSynthPopTotals,
     ids |-> [i \in 1..Len(bestSynthPopIDs) |-> microdata[bestSynthPopIDs[i]].ID],
     constraint_totals |-> constraint.Values,
     fitness |-> bestFitness,
     population |-> constraint.Total]

\* The loop has ended (its condition is false, or a break): return.
Return ==
    /\ pc = "exit" \/ (pc = "loop" /\ ~LoopGuard)
    /\ synthPopResults' = PrepareResults
    /\ pc' = "done"
    /\ exitClause' = IF pc = "exit" THEN exitClause
                     ELSE IF iteration >= config.MaxIterations THEN "MaxIterations"
                     ELSE IF changes <= 0 THEN "Change"
                     ELSE "MinTemp"
    /\ UNCHANGED <<microdata, constraint, config, synthPopTotals, synthPopIDs,
                   fitness, changes, temp, improvementWindow, windowIndex,
                   bestFitness, bestSynthPopTotals, bestSynthPopIDs, iteration,
                   lastReplace, held>>
    /\ UNCHANGED <<parVars, seedVars, fnVars, cliVars>>


\* -------------------------------------------------------------- parallelRun

\* A nil error, and the zero value of results.
NoError == [sink |-> "none", area |-> 0]

NoResult == [area |-> 0, ids |-> 0]

\* The population count of the i-th area handed to parallelRun.
PopOf(i) == 1 + (i % MaxPop)

\* A result that carries one id fewer than the area's population.
AreaResultShort(c) == [area |-> c.ID, ids |-> c.Total - 1]

\* What a worker gets back from syntheticPopulation(constraint, ...): the
\* area id and one id per selected record, constraint.Total of them.
AreaResult(c) == [area |-> c.ID, ids |-> c.Total]

\* make(chan ..., numWorkers*2): the capacity of jobs and of resultsChan.
ChanCap(n) == n * 2

\* A non-blocking send on errChan (capacity 1): select with default.
PostError(ch, err) == IF Len(ch) < 1 THEN Append(ch, err) ELSE ch

\* The microdata handed to parallelRun.
microData == Pool2

\* The area constraints handed to parallelRun: at most one of them (bad)
\* is zero in an attribute where every record of microData is positive.
ParInit ==
    /\ \E cpu \in 1..MaxCPU, n \in 0..MaxAreas : \E bad \in 0..n :
          /\ constraints = [i \in 1..n |->
                               [ID |-> i,
                                Values |-> IF i = bad THEN <<0, 0>> ELSE <<4, 0>>,
                                Total |-> PopOf(i)]]
          /\ numWorkers = Min2(cpu, n)
    /\ jobs = <<>>
    /\ jobsClosed = FALSE
    /\ resultsChan = <<>>
    /\ resultsClosed = FALSE
    /\ errChan = <<>>
    /\ pcCoord = "feed"
    /\ feedIndex = 1
    /\ coordErr = NoError
    /\ returned = NoError
    /\ pcWorker = [w \in 1..numWorkers |-> "recv"]
    /\ workerRes = [w \in 1..numWorkers |-> NoResult]
    /\ pcWriter = "recv"
    /\ writerRes = NoResult
    /\ writerRow = 0
    /\ rows = <<>>
    /\ processed = 0
    /\ firstFailure = NoError
    /\ rngUsers = {}
    /\ pcReporter = "range"
    /\ reported = 0

\* The feed loop's select, first case: jobs <- constraint.
CoordFeed ==
    /\ pcCoord = "feed"
    /\ feedIndex <= Len(constraints)
    /\ Len(jobs) < ChanCap(numWorkers)
    /\ jobs' = Append(jobs, constraints[feedIndex])
    /\ feedIndex' = feedIndex + 1
    /\ UNCHANGED <<rngUsers, constraints, numWorkers, jobsClosed, resultsChan, resultsClosed,
                   errChan, pcCoord, coordErr, returned, pcWorker, workerRes,
                   pcWriter, writerRes, writerRow, rows, processed, firstFailure>>
    /\ UNCHANGED <<pcReporter, reported>>
    /\ UNCHANGED <<annealVars, seedVars, fnVars, cliVars>>

\* The feed loop's select, second case: err := <-errChan, then close(jobs).
CoordRecvErr ==
    /\ pcCoord = "feed"
    /\ feedIndex <= Len(constraints)
    /\ errChan # <<>>
    /\ coordErr' = Head(errChan)
    /\ errChan' = Tail(errChan)
    /\ jobsClosed' = TRUE
    /\ pcCoord' = "waitWorkers"
    /\ UNCHANGED <<rngUsers, constraints, numWorkers, jobs, resultsChan, resultsClosed,
                   feedIndex, returned, pcWorker, workerRes, pcWriter, writerRes,
                   writerRow, rows, processed, firstFailure>>
    /\ UNCHANGED <<pcReporter, reported>>
    /\ UNCHANGED <<annealVars, seedVars, fnVars, cliVars>>

\* The feed loop is over: close(jobs).
CoordCloseJobs ==
    /\ pcCoord = "feed"
    /\ feedIndex > Len(constraints)
    /\ jobsClosed' = TRUE
    /\ pcCoord' = "waitWorkers"
    /\ UNCHANGED <<rngUsers, constraints, numWorkers, jobs, resultsChan, resultsClosed,
                   errChan, feedIndex, coordErr, returned, pcWorker, workerRes,
                   pcWriter, writerRes, writerRow, rows, processed, firstFailure>>
    /\ UNCHANGED <<pcReporter, reported>>
    /\ UNCHANGED <<annealVars, seedVars, fnVars, cliVars>>

\* workerWg.Wait() returns, and resultsChan is left open.
CoordWaitWorkersNoClose ==
    /\ pcCoord = "waitWorkers"
    /\ \A w \in 1..numWorkers : pcWorker[w] = "done"
    /\ pcCoord' = "waitWriter"
    /\ UNCHANGED <<rngUsers, constraints, numWorkers, jobs, jobsClosed, resultsChan,
                   resultsClosed, errChan, feedIndex, coordErr, returned, pcWorker,
                   workerRes, pcWriter, writerRes, writerRow, rows, processed,
                   firstFailure>>
    /\ UNCHANGED <<pcReporter, reported>>
    /\ UNCHANGED <<annealVars, seedVars, fnVars, cliVars>>

\* close(resultsChan) without waiting for workerWg.
CoordWaitWorkersEarly ==
    /\ pcCoord = "waitWorkers"
    /\ resultsClosed' = TRUE
    /\ pcCoord' = "waitWriter"
    /\ UNCHANGED <<rngUsers, constraints, numWorkers, jobs, jobsClosed, resultsChan,
                   errChan, feedIndex, coordErr, returned, pcWorker, workerRes,
                   pcWriter, writerRes, writerRow, rows, processed, firstFailure>>
    /\ UNCHANGED <<pcReporter, reported>>
    /\ UNCHANGED <<annealVars, seedVars, fnVars, cliVars>>

\* workerWg.Wait() returns, then close(resultsChan).
CoordWaitWorkers ==
    /\ pcCoord = "waitWorkers"
    /\ \A w \in 1..numWorkers : pcWorker[w] = "done"
    /\ resultsClosed' = TRUE
    /\ pcCoord' = "waitWriter"
    /\ UNCHANGED <<rngUsers, constraints, numWorkers, jobs, jobsClosed, resultsChan,
                   errChan, feedIndex, coordErr, returned, pcWorker, workerRes,
                   pcWriter, writerRes, writerRow, rows, processed, firstFailure>>
    /\ UNCHANGED <<pcReporter, reported>>
    /\ UNCHANGED <<annealVars, seedVars, fnVars, cliVars>>

\* writerWg.Wait() returns, then return err (line 207) or return nil
\* (line 222).
CoordReturn ==
    /\ pcCoord = "waitWriter"
    /\ pcWriter = "done"
    /\ returned' = coordErr
    /\ pcCoord' = "returned"
    /\ UNCHANGED <<rngUsers, constraints, numWorkers, jobs, jobsClosed, resultsChan,
                   resultsClosed, errChan, feedIndex, coordErr, pcWorker,
                   workerRes, pcWriter, writerRes, writerRow, rows, processed,
                   firstFailure>>
    /\ UNCHANGED <<pcReporter, reported>>
    /\ UNCHANGED <<annealVars, seedVars, fnVars, cliVars>>

Coordinator ==
    CoordFeed \/ CoordRecvErr \/ CoordCloseJobs \/ CoordWaitWorkers \/ CoordReturn

\* The random sources a call of syntheticPopulation by worker w draws
\* from: initPopulation calls the top-level rand.Intn, the source shared by
\* the whole process (line 284); replace is passed the source made at
\* line 327 for this call.
SourcesDrawnFrom(w) == {<<"global", 0>>, <<"call", w>>}

\* for constraint := range jobs, and the anneal of the area received; the
\* loop ends when jobs is closed and drained.  initPopulation panics when
\* no record is valid for the area: nothing recovers the panic, and the
\* process ends with every goroutine.
WorkerRecv(w) ==
    /\ w \in 1..numWorkers
    /\ pcWorker[w] = "recv"
    /\ \/ /\ jobs # <<>>
          /\ validIndices(Head(jobs), microData) # {}
          /\ workerRes' = [workerRes EXCEPT ![w] = AreaResult(Head(jobs))]
          /\ jobs' = Tail(jobs)
          /\ pcWorker' = [pcWorker EXCEPT ![w] = "send"]
          /\ rngUsers' = rngUsers \cup {<<src, w>> : src \in SourcesDrawnFrom(w)}
          /\ UNCHANGED <<pcCoord, pcWriter, pcReporter>>
       \/ /\ jobs # <<>>
          /\ validIndices(Head(jobs), microData) = {}
          /\ jobs' = Tail(jobs)
          /\ pcWorker' = [v \in 1..numWorkers |-> "crashed"]
          /\ pcCoord' = "crashed"
          /\ pcWriter' = "crashed"
          /\ pcReporter' = "crashed"
          /\ UNCHANGED <<workerRes, rngUsers>>
       \/ /\ jobs = <<>>
          /\ jobsClosed
          /\ pcWorker' = [pcWorker EXCEPT ![w] = "done"]
          /\ UNCHANGED <<jobs, workerRes, rngUsers, pcCoord, pcWriter, pcReporter>>
    /\ UNCHANGED <<constraints, numWorkers, jobsClosed, resultsChan, resultsClosed,
                   errChan, feedIndex, coordErr, returned,
                   writerRes, writerRow, rows, processed, firstFailure>>
    /\ UNCHANGED reported
    /\ UNCHANGED <<annealVars, seedVars, fnVars, cliVars>>

\* The worker's select: resultsChan <- res, or <-errChan and return.
WorkerSend(w) ==
    /\ w \in 1..numWorkers
    /\ pcWorker[w] = "send"
    /\ \/ /\ Len(resultsChan) < ChanCap(numWorkers)
          /\ resultsChan' = Append(resultsChan, workerRes[w])
          /\ pcWorker' = [pcWorker EXCEPT ![w] = "recv"]
          /\ UNCHANGED errChan
       \/ /\ errChan # <<>>
          /\ errChan' = Tail(errChan)
          /\ pcWorker' = [pcWorker EXCEPT ![w] = "done"]
          /\ UNCHANGED resultsChan
    /\ UNCHANGED <<rngUsers, constraints, numWorkers, jobs, jobsClosed, resultsClosed,
                   pcCoord, feedIndex, coordErr, returned, workerRes, pcWriter,
                   writerRes, writerRow, rows, processed, firstFailure>>
    /\ UNCHANGED <<pcReporter, reported>>
    /\ UNCHANGED <<annealVars, seedVars, fnVars, cliVars>>

Worker(w) == WorkerRecv(w) \/ WorkerSend(w)

\* for res := range resultsChan; the loop ends when resultsChan is closed
\* and drained.
WriterRecv ==
    /\ pcWriter = "recv"
    /\ \/ /\ resultsChan # <<>>
          /\ writerRes' = Head(resultsChan)
          /\ resultsChan' = Tail(resultsChan)
          /\ writerRow' = 0
          /\ pcWriter' = "write"
       \/ /\ resultsChan = <<>>
          /\ resultsClosed
          /\ pcWriter' = "done"
          /\ UNCHANGED <<resultsChan, writerRes, writerRow>>
    /\ UNCHANGED <<rngUsers, constraints, numWorkers, jobs, jobsClosed, resultsClosed,
                   errChan, pcCoord, feedIndex, coordErr, returned, pcWorker,
                   workerRes, rows, processed, firstFailure>>
    /\ UNCHANGED <<pcReporter, reported>>
    /\ UNCHANGED <<annealVars, seedVars, fnVars, cliVars>>

\* An ids write whose failure is posted but does not end the writer.
WriterWriteIDContinue ==
    /\ pcWriter = "write"
    /\ writerRow < writerRes.ids
    /\ \/ /\ rows' = Append(rows, [sink |-> "ids", area |-> writerRes.area])
          /\ writerRow' = writerRow + 1
          /\ UNCHANGED <<errChan, pcWriter, firstFailure>>
       \/ /\ firstFailure = NoError
          /\ errChan' = PostError(errChan, [sink |-> "ids", area |-> writerRes.area])
          /\ firstFailure' = [sink |-> "ids", area |-> writerRes.area]
          /\ UNCHANGED <<rows, writerRow, pcWriter>>
    /\ UNCHANGED <<rngUsers, constraints, numWorkers, jobs, jobsClosed, resultsChan,
                   resultsClosed, pcCoord, feedIndex, coordErr, returned,
                   pcWorker, workerRes, writerRes, processed>>
    /\ UNCHANGED <<pcReporter, reported>>
    /\ UNCHANGED <<annealVars, seedVars, fnVars, cliVars>>

\* idsWriter.Write of the next id of the result: the row is accepted, or
\* the write fails, the error is posted and the writer returns.
WriterWriteID ==
    /\ pcWriter = "write"
    /\ writerRow < writerRes.ids
    /\ \/ /\ rows' = Append(rows, [sink |-> "ids", area |-> writerRes.area])
          /\ writerRow' = writerRow + 1
          /\ UNCHANGED <<errChan, pcWriter, firstFailure>>
       \/ /\ errChan' = PostError(errChan, [sink |-> "ids", area |-> writerRes.area])
          /\ firstFailure' = [sink |-> "ids", area |-> writerRes.area]
          /\ pcWriter' = "done"
          /\ UNCHANGED <<rows, writerRow>>
    /\ UNCHANGED <<rngUsers, constraints, numWorkers, jobs, jobsClosed, resultsChan,
                   resultsClosed, pcCoord, feedIndex, coordErr, returned,
                   pcWorker, workerRes, writerRes, processed>>
    /\ UNCHANGED <<pcReporter, reported>>
    /\ UNCHANGED <<annealVars, seedVars, fnVars, cliVars>>

\* An aggregates write that does not wait for the last id row.
WriterWriteFractionsEarly ==
    /\ pcWriter = "write"
    /\ writerRow >= writerRes.ids - 1
    /\ rows' = Append(rows, [sink |-> "fractions", area |-> writerRes.area])
    /\ processed' = processed + 1
    /\ pcWriter' = "recv"
    /\ UNCHANGED <<errChan, firstFailure>>
    /\ UNCHANGED <<rngUsers, constraints, numWorkers, jobs, jobsClosed, resultsChan,
                   resultsClosed, pcCoord, feedIndex, coordErr, returned,
                   pcWorker, workerRes, writerRes, writerRow>>
    /\ UNCHANGED <<pcReporter, reported>>
    /\ UNCHANGED <<annealVars, seedVars, fnVars, cliVars>>

\* fractionsFile.WriteString of the aggregates row, then processed.Add(1);
\* or the write fails, the error is posted and the writer returns.
WriterWriteFractions ==
    /\ pcWriter = "write"
    /\ writerRow >= writerRes.ids
    /\ \/ /\ rows' = Append(rows, [sink |-> "fractions", area |-> writerRes.area])
          /\ processed' = processed + 1
          /\ pcWriter' = "recv"
          /\ UNCHANGED <<errChan, firstFailure>>
       \/ /\ errChan' = PostError(errChan, [sink |-> "fractions", area |-> writerRes.area])
          /\ firstFailure' = [sink |-> "fractions", area |-> writerRes.area]
          /\ pcWriter' = "done"
          /\ UNCHANGED <<rows, processed>>
    /\ UNCHANGED <<rngUsers, constraints, numWorkers, jobs, jobsClosed, resultsChan,
                   resultsClosed, pcCoord, feedIndex, coordErr, returned,
                   pcWorker, workerRes, writerRes, writerRow>>
    /\ UNCHANGED <<pcReporter, reported>>
    /\ UNCHANGED <<annealVars, seedVars, fnVars, cliVars>>

Writer == WriterRecv \/ WriterWriteID \/ WriterWriteFractions

\* defer progressTicker.Stop(): the ticker is stopped when parallelRun
\* returns.  Stop ends the ticks; it does not close progressTicker.C.
TickerStopped == pcCoord = "returned"

\* for range progressTicker.C: a tick arrives and the reporter prints
\* processed.Load().  The loop ends only when the channel is closed, and
\* nothing closes it: the reporter has no step that ends it.
ReporterTick ==
    /\ pcReporter = "range"
    /\ ~TickerStopped
    /\ reported' = processed
    /\ UNCHANGED <<rngUsers, constraints, numWorkers, jobs, jobsClosed, resultsChan,
                   resultsClosed, errChan, pcCoord, feedIndex, coordErr, returned,
                   pcWorker, workerRes, pcWriter, writerRes, writerRow, rows,
                   processed, firstFailure, pcReporter>>
    /\ UNCHANGED <<annealVars, seedVars, fnVars, cliVars>>

\* ------------------------------------------------------------ random sources

\* rand.NewSource(seed): the state a seed puts a source in.
NewSource(seed) == seed % RngMod

\* One step of a source: the state after a draw.  The value drawn is a
\* function of that state.
Advance(state) == (5 * state + 3) % RngMod

Int63(state) == Advance(state)

\* time.Now().UnixNano(), and the seed the runtime gives the top-level
\* source of math/rand: any value, another one in every run.
ClockReadings == 0..MaxSeed

RuntimeSeeds == 0..MaxSeed

\* initializeRNG for one worker: the state of workerRNGs[0], seeded from
\* a master source seeded with RandomSeed or with the clock reading now.
initializeRNG(cfg, now) ==
    LET masterRNG == IF cfg.UseRandomSeed = "yes" THEN NewSource(cfg.RandomSeed)
                     ELSE NewSource(now)
    IN  NewSource(Int63(masterRNG))

SeedInit ==
    /\ seedConfig \in [UseRandomSeed : {"yes", "no"}, RandomSeed : 0..MaxSeed]
    /\ seedRuns = [r \in 1..2 |->
                      [pc |-> "new", worker |-> 0, global |-> 0, call |-> 0,
                       draws |-> <<>>]]

\* The start of run r: the runtime seeds the top-level source, parallelRun
\* calls initializeRNG and the worker receives the area.
SeedStart(r) ==
    /\ seedRuns[r].pc = "new"
    /\ \E g \in RuntimeSeeds, now \in ClockReadings :
          seedRuns' = [seedRuns EXCEPT ![r] =
                          [@ EXCEPT !.pc = "initPopulation",
                                    !.global = NewSource(g),
                                    !.worker = initializeRNG(seedConfig, now)]]
    /\ UNCHANGED seedConfig
    /\ UNCHANGED <<annealVars, parVars, fnVars, cliVars>>

\* One pass of the draw loop of initPopulation: rand.Intn, the top-level
\* source.  After the last pass syntheticPopulation makes the source that
\* replace is given, seeded with the clock reading.
SeedDrawInitial(r) ==
    /\ seedRuns[r].pc = "initPopulation"
    /\ \E now \in ClockReadings :
          LET drawn == Advance(seedRuns[r].global)
              last == Len(seedRuns[r].draws) + 1 = SeedPop
          IN  seedRuns' = [seedRuns EXCEPT ![r] =
                  [@ EXCEPT !.global = drawn,
                            !.draws = Append(@, drawn),
                            !.call = IF last THEN NewSource(now) ELSE @,
                            !.pc = IF last THEN "replace" ELSE @]]
    /\ UNCHANGED seedConfig
    /\ UNCHANGED <<annealVars, parVars, fnVars, cliVars>>

\* A draw of replace: rng.Intn or rng.Float64 on the source of the call.
SeedDrawReplace(r) ==
    /\ seedRuns[r].pc = "replace"
    /\ LET drawn == Advance(seedRuns[r].call)
           last == Len(seedRuns[r].draws) + 1 = SeedPop + SeedIter
       IN  seedRuns' = [seedRuns EXCEPT ![r] =
               [@ EXCEPT !.call = drawn,
                         !.draws = Append(@, drawn),
                         !.pc = IF last THEN "done" ELSE @]]
    /\ UNCHANGED seedConfig
    /\ UNCHANGED <<annealVars, parVars, fnVars, cliVars>>

\* ------------------------------------------------------ library functions

\* Entries of the vectors: attribute values can be any number, the
\* divergences are applied to the non-negative ones.
FnValues == -1..MaxValue

Vectors(n) == [1..n -> FnValues]

NonNegative(v) == \A i \in 1..Len(v) : v[i] >= 0

NotApplied == [fn |-> "none", metric |-> 0, ab |-> 0, ba |-> 0, valid |-> FALSE]

Metrics == {KL_DIVERGENCE, CHI_SQUARED, EUCLIDEAN, NORM_EUCLIDEAN, MANHATTEN}

\* ChiSquaredDistance divides by EPSILON where the expected value is zero;
\* the quotient is outside the integers of the model unless the difference
\* is zero there.
InRange(metric, expected, observed) ==
    metric = CHI_SQUARED =>
        \A i \in 1..Len(expected) : expected[i] = 0 => observed[i] = 0

FnInit ==
    /\ \E n \in 1..MaxLen : vecA \in Vectors(n) /\ vecB \in Vectors(n)
    /\ outcome = NotApplied

\* Distance(metric, vecA, vecB) and Distance(metric, vecB, vecA).
ApplyDistance(metric) ==
    /\ outcome.fn = "none"
    /\ NonNegative(vecA) /\ NonNegative(vecB)
    /\ InRange(metric, vecA, vecB) /\ InRange(metric, vecB, vecA)
    /\ outcome' = [fn |-> "Distance", metric |-> metric,
                   ab |-> Distance(metric, vecA, vecB),
                   ba |-> Distance(metric, vecB, vecA),
                   valid |-> FALSE]
    /\ UNCHANGED <<vecA, vecB, annealVars, parVars, seedVars, cliVars>>

\* isValidMicrodata(vecA, vecB): vecA the record, vecB the constraints.
ApplyIsValid ==
    /\ outcome.fn = "none"
    /\ outcome' = [fn |-> "isValidMicrodata", metric |-> 0, ab |-> 0, ba |-> 0,
                   valid |-> isValidMicrodata(vecA, vecB)]
    /\ UNCHANGED <<vecA, vecB, annealVars, parVars, seedVars, cliVars>>

\* ------------------------------------------------------------------ cliMain

\* main.go line 81
ValidMetrics ==
    {"CHI_SQUARED", "EUCLIDEAN", "NORM_EUCLIDEAN", "MANHATTEN", "KL_DIVERGENCE",
     "COSINE", "JSDIVERGENCE"}

\* The "distance" strings a configuration file can hold; "" is the field
\* left out.
DistanceNames == ValidMetrics \cup {"", "euclidean", "HAMMING"}

Headers == {<<"id", "age", "sex">>, <<"id", "sex", "age">>}

\* LoadCombinedConfigs: the file is read and unmarshalled; the only errors
\* are a file that cannot be read and JSON that cannot be parsed.
LoadCombinedConfigs(file) ==
    IF file.status = "unreadable"
    THEN [root |-> [Distance |-> ""], err |-> "failed to read config file"]
    ELSE IF file.status = "malformed"
    THEN [root |-> [Distance |-> ""], err |-> "failed to parse JSON"]
    ELSE [root |-> [Distance |-> file.Distance], err |-> "nil"]

CliInit ==
    /\ cliFile \in [status : {"ok", "unreadable", "malformed"},
                    Distance : DistanceNames]
    /\ cliHeaders \in [constraints : Headers, microdata : Headers]
    /\ cliPc = "start"
    /\ cliConfig = [Distance |-> ""]
    /\ cliRun = <<>>

\* Lines 397-401: load the configuration, exit on an error.
CliLoad ==
    /\ cliPc = "start"
    /\ \E r \in {LoadCombinedConfigs(cliFile)} :
          /\ cliConfig' = r.root
          /\ cliPc' = IF r.err # "nil" THEN "exit1" ELSE "loaded"
    /\ UNCHANGED <<cliFile, cliHeaders, cliRun, annealVars, parVars, seedVars, fnVars>>

\* Lines 402-412: load the two tables, exit unless their headers agree.
CliCheckHeaders ==
    /\ cliPc = "loaded"
    /\ cliPc' = IF cliHeaders.constraints # cliHeaders.microdata
               THEN "exit1" ELSE "checked"
    /\ UNCHANGED <<cliFile, cliHeaders, cliConfig, cliRun, annealVars, parVars,
                   seedVars, fnVars>>

\* Line 431: parallelRun is called with config.AnnealingConfig.
CliRun ==
    /\ cliPc = "checked"
    /\ cliRun' = Append(cliRun, cliConfig)
    /\ cliPc' = "ran"
    /\ UNCHANGED <<cliFile, cliHeaders, cliConfig, annealVars, parVars, seedVars,
                   fnVars>>

\* ------------------------------------------------------------ specifications

\* No seeded runs under examination.
SeedIdle ==
    /\ seedConfig = [UseRandomSeed |-> "no", RandomSeed |-> 0]
    /\ seedRuns = <<>>

\* parallelRun not running (while one anneal is examined on its own).
ParIdle ==
    /\ constraints = <<>>
    /\ numWorkers = 0
    /\ jobs = <<>>
    /\ jobsClosed = FALSE
    /\ resultsChan = <<>>
    /\ resultsClosed = FALSE
    /\ errChan = <<>>
    /\ pcCoord = "idle"
    /\ feedIndex = 1
    /\ coordErr = NoError
    /\ returned = NoError
    /\ pcWorker = <<>>
    /\ workerRes = <<>>
    /\ pcWriter = "idle"
    /\ writerRes = NoResult
    /\ writerRow = 0
    /\ rows = <<>>
    /\ processed = 0
    /\ firstFailure = NoError
    /\ rngUsers = {}
    /\ pcReporter = "idle"
    /\ reported = 0

\* No anneal under examination (while parallelRun is examined).
AnnealIdle ==
    /\ microdata = <<>>
    /\ constraint = [ID |-> "", Values |-> <<>>, Total |-> 0]
    /\ config = [WindowSize |-> 0]
    /\ pc = "idle"
    /\ synthPopTotals = <<>>
    /\ synthPopIDs = <<>>
    /\ fitness = 0
    /\ changes = 0
    /\ temp = 0
    /\ improvementWindow = <<>>
    /\ windowIndex = 0
    /\ bestFitness = 0
    /\ bestSynthPopTotals = <<>>
    /\ bestSynthPopIDs = <<>>
    /\ iteration = 0
    /\ synthPopResults = [area |-> "", synthpop_totals |-> <<>>, ids |-> <<>>,
                          constraint_totals |-> <<>>, fitness |-> 0, population |-> 0]
    /\ lastReplace = [kind |-> "none"]
    /\ held = <<>>
    /\ exitClause = "none"

\* No library function under examination.
FnIdle ==
    /\ vecA = <<>>
    /\ vecB = <<>>
    /\ outcome = NotApplied

\* cliMain not running.
CliIdle ==
    /\ cliFile = [status |-> "none", Distance |-> ""]
    /\ cliHeaders = [constraints |-> <<>>, microdata |-> <<>>]
    /\ cliPc = "idle"
    /\ cliConfig = [Distance |-> ""]
    /\ cliRun = <<>>

\* One anneal: syntheticPopulation.
Init == AnnealInit /\ ParIdle /\ SeedIdle /\ FnIdle /\ CliIdle

Next == Initialise \/ Iterate \/ Return

Spec == Init /\ [][Next]_vars

\* One run of parallelRun.
InitPar == ParInit /\ AnnealIdle /\ SeedIdle /\ FnIdle /\ CliIdle

NextPar ==
    \/ CoordFeed
    \/ CoordRecvErr
    \/ CoordCloseJobs
    \/ CoordWaitWorkers
    \/ CoordReturn
    \/ \E w \in 1..MaxCPU : WorkerRecv(w)
    \/ \E w \in 1..MaxCPU : WorkerSend(w)
    \/ WriterRecv
    \/ WriterWriteID
    \/ WriterWriteFractions
    \/ ReporterTick

SpecPar == InitPar /\ [][NextPar]_vars

\* The Go scheduler runs every goroutine that can take a step.
FairPar ==
    /\ WF_vars(Coordinator)
    /\ \A w \in 1..MaxCPU : WF_vars(Worker(w))
    /\ WF_vars(Writer)

FairSpecPar == SpecPar /\ FairPar

\* Two runs on identical inputs.
InitSeed == SeedInit /\ AnnealIdle /\ ParIdle /\ FnIdle /\ CliIdle

NextSeed ==
    \/ \E r \in 1..2 : SeedStart(r)
    \/ \E r \in 1..2 : SeedDrawInitial(r)
    \/ \E r \in 1..2 : SeedDrawReplace(r)

SpecSeed == InitSeed /\ [][NextSeed]_vars

\* One anneal of the instance of scenario S3.
InitS3 == S3Init /\ ParIdle /\ SeedIdle /\ FnIdle /\ CliIdle

SpecS3 == InitS3 /\ [][Next]_vars

\* One call of a library function on one pair of vectors.
InitFn == FnInit /\ AnnealIdle /\ ParIdle /\ SeedIdle /\ CliIdle

NextFn == (\E metric \in Metrics : ApplyDistance(metric)) \/ ApplyIsValid

SpecFn == InitFn /\ [][NextFn]_vars

\* One run of cliMain.
InitCli == CliInit /\ AnnealIdle /\ ParIdle /\ SeedIdle /\ FnIdle

NextCli == CliLoad \/ CliCheckHeaders \/ CliRun

SpecCli == InitCli /\ [][NextCli]_vars

\* ---------------------------------------- claims about syntheticPopulation

Initialised == pc \in {"loop", "exit", "done"}

RECURSIVE ExactSum(_, _, _, _)
ExactSum(md, ids, n, i) ==
    IF n = 0 THEN 0 ELSE ExactSum(md, ids, n - 1, i) + md[ids[n]].Values[i]

\* C1: after initialisation and after every call of replace, every cell of
\* the aggregate is the sum of that attribute over the selected records
\* (the exact sum, or the float64 sum taken in selection order).
C1_AggregateIsSumOfSelection ==
    Initialised =>
        \/ \A i \in 1..Len(synthPopTotals) :
              synthPopTotals[i] = ExactSum(microdata, synthPopIDs, Len(synthPopIDs), i)
        \/ synthPopTotals = TotalsOf(microdata, synthPopIDs, Len(synthPopIDs),
                                     Len(synthPopTotals))

\* C2: replace accepts its proposal exactly when the new fitness is lower or
\* exp((fitness - newFitness) / temp) is at least the uniform draw, so that
\* a proposal that is not better is accepted with that probability.
C2_MetropolisAcceptance ==
    lastReplace.kind \in {"accepted", "rejected"} =>
        (lastReplace.kind = "accepted" <=>
            \/ lastReplace.newFitness < lastReplace.fitness
            \/ ExpMilli(lastReplace.fitness - lastReplace.newFitness,
                        lastReplace.temp) >= lastReplace.u)

\* The metric a configured name stands for.
MetricOf(name) ==
    CASE name = "CHI_SQUARED" -> CHI_SQUARED
      [] name = "EUCLIDEAN" -> EUCLIDEAN
      [] name = "NORM_EUCLIDEAN" -> NORM_EUCLIDEAN
      [] name = "MANHATTEN" -> MANHATTEN
      [] OTHER -> KL_DIVERGENCE

\* C11: the divergence named by config.Distance is the one that computed
\* the initial fitness and the fitness of every accepted proposal (the
\* values the window holds and the comparisons are made with).
C11_ConfiguredDivergenceUsed ==
    Initialised =>
        /\ held[1].fitness =
              Distance(MetricOf(config.Distance), constraint.Values, held[1].totals)
        /\ lastReplace.kind = "accepted" =>
              fitness = Distance(MetricOf(config.Distance), constraint.Values,
                                 synthPopTotals)

\* C7: every record of the selection, and of the best selection, is valid
\* for the area: it has no positive value where the constraint is zero.
C7_SelectionFeasible ==
    Initialised =>
        /\ \A k \in 1..Len(synthPopIDs) :
              isValidMicrodata(microdata[synthPopIDs[k]].Values, constraint.Values)
        /\ \A k \in 1..Len(bestSynthPopIDs) :
              isValidMicrodata(microdata[bestSynthPopIDs[k]].Values, constraint.Values)

C7_Witness ==
    /\ Initialised
    /\ lastReplace.kind = "accepted"
    /\ validIndices(constraint, microdata) # 1..Len(microdata)

FirstMin(h) ==
    CHOOSE n \in 1..Len(h) :
        /\ \A m \in 1..Len(h) : h[n].fitness <= h[m].fitness
        /\ \A m \in 1..(n - 1) : h[m].fitness > h[n].fitness

\* C8: the result returned has the lowest fitness held at any time since
\* initialisation, with the aggregate and the selection of the first
\* moment that fitness was held, whichever clause ended the loop.
C8_ResultIsFirstBest ==
    pc = "done" =>
        /\ synthPopResults.fitness = held[FirstMin(held)].fitness
        /\ synthPopResults.synthpop_totals = held[FirstMin(held)].totals
        /\ synthPopResults.ids =
              [i \in 1..constraint.Total |->
                  microdata[held[FirstMin(held)].ids[i]].ID]

C8_Witness ==
    /\ pc = "done"
    /\ exitClause = "MaxIterations"
    /\ FirstMin(held) > 1
    /\ FirstMin(held) < Len(held)

C8_WitnessThreshold == pc = "done" /\ exitClause = "FitnessThreshold"

C8_WitnessStagnation == pc = "done" /\ exitClause = "stagnation"

C8_WitnessChange == pc = "done" /\ exitClause = "Change" /\ Len(held) > 1

C8_WitnessMinTemp == pc = "done" /\ exitClause = "MinTemp" /\ Len(held) > 1

\* C9: the best fitness never increases once it is initialised.
C9_BestFitnessNeverIncreases ==
    [][Initialised => bestFitness' <= bestFitness]_vars

C9_Witness ==
    /\ Initialised
    /\ Len(held) >= 3
    /\ bestFitness < held[1].fitness
    /\ lastReplace.kind = "rejected"
    /\ lastReplace.newFitness > bestFitness

\* C10: a rejected proposal whose iteration runs to its end leaves the
\* aggregate, the selection and the fitness as they were before the call,
\* and the change budget one lower.
C10_RejectionRestoresState ==
    (pc = "loop" /\ lastReplace.kind = "rejected") =>
        /\ synthPopTotals = lastReplace.totals
        /\ synthPopIDs = lastReplace.ids
        /\ fitness = lastReplace.fitness
        /\ changes = lastReplace.changes - 1


\* C12: no iteration starts while the best fitness is at or below
\* FitnessThreshold: after best tracking of any iteration with best at or
\* below the threshold the loop has ended, also when best was there from
\* initialisation and the iteration brought no improvement.
C12_ThresholdEndsLoop ==
    (pc = "loop" /\ LoopGuard /\ lastReplace.kind # "none") =>
        bestFitness > config.FitnessThreshold

\* C13: an iteration in which replace found no feasible candidate leaves
\* aggregate, selection and fitness unchanged and does not decrement the
\* change budget.
C13_SkipKeepsBudget ==
    (pc = "loop" /\ lastReplace.kind = "skipped") =>
        /\ synthPopTotals = lastReplace.totals
        /\ synthPopIDs = lastReplace.ids
        /\ fitness = lastReplace.fitness
        /\ changes = lastReplace.changes

\* C14: syntheticPopulation terminates: every proposal is made with
\* iterations left, a positive change budget and a temperature above
\* MinTemp, the proposals made never exceed MaxIterations, and a pass that
\* stays in the loop raises the iteration count by one.
C14_BoundedProposals ==
    [][(pc = "loop" /\ held' # held) =>
            /\ iteration < config.MaxIterations
            /\ changes > 0
            /\ temp > config.MinTemp
            /\ Len(held') <= config.MaxIterations + 1
            /\ (pc' = "loop" => iteration' = iteration + 1)]_vars

C14_Witness ==
    /\ pc = "done"
    /\ Len(held) = config.MaxIterations + 1
    /\ config.MaxIterations >= 2

C14_WitnessBudget == pc = "done" /\ changes = 0 /\ iteration < config.MaxIterations

C14_WitnessMinTemp ==
    pc = "done" /\ changes > 0 /\ iteration < config.MaxIterations
                /\ temp <= config.MinTemp /\ exitClause = "MinTemp"

\* ------------------------------------------------- claims about parallelRun

RowsOf(sink, area) ==
    Cardinality({i \in 1..Len(rows) : rows[i].sink = sink /\ rows[i].area = area})

EveryAreaWritten ==
    \A i \in 1..Len(constraints) :
        /\ RowsOf("ids", constraints[i].ID) = constraints[i].Total
        /\ RowsOf("fractions", constraints[i].ID) = 1

\* C3: when parallelRun has returned and a sink write had failed, the value
\* returned is that first write failure; and nil is returned only when
\* every area has been written.
C3_WriteErrorReturned ==
    pcCoord = "returned" =>
        /\ (firstFailure # NoError => returned = firstFailure)
        /\ (returned = NoError => EveryAreaWritten)

\* C4: after the writer has posted a sink write error, parallelRun is never
\* stuck before it has returned: the coordinator, a worker or the writer
\* can always take a step until the coordinator returns (or a panic has
\* ended the process).  The ticks of the progress reporter move none of
\* them.
C4_NeverStuckAfterError ==
    (firstFailure # NoError /\ pcCoord \notin {"returned", "crashed"}) =>
        ENABLED (Coordinator \/ (\E w \in 1..MaxCPU : Worker(w)) \/ Writer)

\* C5: when parallelRun returns from a run without a sink write error,
\* every input area has exactly Total assignment rows and exactly one
\* aggregates row, and nothing else was written.
C5_ExactlyOneResultPerArea ==
    (pcCoord = "returned" /\ firstFailure = NoError) =>
        /\ EveryAreaWritten
        /\ \A r \in 1..Len(rows) :
              \E i \in 1..Len(constraints) : rows[r].area = constraints[i].ID

C5_Witness ==
    /\ pcCoord = "returned"
    /\ firstFailure = NoError
    /\ Len(constraints) >= 3
    /\ numWorkers >= 2

\* C6: a run without a sink write error terminates: eventually parallelRun
\* has returned (or a panic has ended the process), unless a write has
\* failed.
C6_TerminatesWithoutError ==
    <>(pcCoord \in {"returned", "crashed"} \/ firstFailure # NoError)

C6_Witness ==
    /\ pcCoord = "returned"
    /\ firstFailure = NoError
    /\ Len(constraints) > ChanCap(numWorkers)

C6_WitnessNoAreas ==
    /\ pcCoord = "returned"
    /\ Len(constraints) = 0

HasInfeasibleArea ==
    \E i \in 1..Len(constraints) : validIndices(constraints[i], microData) = {}

AreaWritten(i) ==
    /\ RowsOf("ids", constraints[i].ID) = constraints[i].Total
    /\ RowsOf("fractions", constraints[i].ID) = 1

\* C15: when an area has no feasible record, its anneal ends in an error
\* value: the process does not panic, nothing is written for the area, and
\* a parallelRun that returns returns an error.
C15_NoFeasibleRecordsIsAnError ==
    HasInfeasibleArea =>
        /\ pcCoord # "crashed"
        /\ pcCoord = "returned" => returned # NoError

\* C16: when the anneal of an area without a feasible record has aborted
\* and no write has failed, the run does not end before every other area
\* is written to both sinks.
C16_OtherAreasUnaffected ==
    (pcCoord = "crashed" /\ firstFailure = NoError) =>
        \A i \in 1..Len(constraints) :
            validIndices(constraints[i], microData) # {} => AreaWritten(i)

\* C18: no random source is drawn from by more than one worker.
C18_RandomSourceNotShared ==
    \A p \in rngUsers, q \in rngUsers : p[1] = q[1] => p[2] = q[2]

\* C19: the rows of an area are contiguous in the output, its aggregates
\* row is the last of them and follows all Total of its assignment rows.
C19_AreaRowsContiguous ==
    /\ \A i \in 1..Len(rows), k \in 1..Len(rows) :
          (i < k /\ rows[i].area = rows[k].area) =>
              /\ rows[i].sink = "ids"
              /\ \A j \in i..k : rows[j].area = rows[i].area
    /\ \A j \in 1..Len(rows) :
          rows[j].sink = "fractions" =>
              Cardinality({i \in 1..(j - 1) : /\ rows[i].area = rows[j].area
                                              /\ rows[i].sink = "ids"})
                  = constraints[rows[j].area].Total

C19_Witness ==
    /\ pcCoord = "returned"
    /\ numWorkers >= 2
    /\ processed >= 3
    /\ \E j \in 1..Len(rows) : rows[j].area = 2 /\ rows[Len(rows)].area = 1

\* C20: after the first failed sink write no row is written and the
\* completed-areas counter does not move; the failing area has no
\* aggregates row.
C20_NoWriteAfterFailure ==
    [][/\ firstFailure # NoError => rows' = rows /\ processed' = processed
       /\ (firstFailure = NoError /\ firstFailure' # NoError) =>
              /\ rows' = rows
              /\ processed' = processed
              /\ \A j \in 1..Len(rows) :
                    ~(rows[j].sink = "fractions" /\ rows[j].area = firstFailure'.area)]_vars

C20_Witness ==
    /\ pcCoord = "returned"
    /\ firstFailure # NoError
    /\ Len(rows) >= 1
    /\ processed < Len(constraints) - 1

\* C17: with UseRandomSeed set, two single-worker runs on identical
\* inputs make the same random draws: as far as both have got, the two
\* sequences of draws agree.
C17_SeededRunsDrawAlike ==
    seedConfig.UseRandomSeed = "yes" =>
        \A i \in 1..Min2(Len(seedRuns[1].draws), Len(seedRuns[2].draws)) :
            seedRuns[1].draws[i] = seedRuns[2].draws[i]

\* ------------------------------------------------ claims about scenario S3

\* Some proposal of the current state would be accepted by replace.
SomeProposalAccepted ==
    \E j \in Candidates(constraint, microdata), k \in 1..Len(synthPopIDs),
       u \in Uniforms :
        replace(microdata, constraint, synthPopTotals, synthPopIDs, fitness,
                temp, j, k, u).kind = "accepted"

\* C21 (scenario S3): from every initial selection the anneal comes to
\* hold the selection of aggregate 7 with fitness 0.3: while the budget is
\* not exhausted and the state held is not that one, some proposal is
\* still accepted.
C21_S3ReachesSeven ==
    (pc = "loop" /\ LoopGuard
        /\ ~(synthPopTotals = <<70>> /\ fitness = 3 * FitScale))
        => SomeProposalAccepted

\* ------------------------------------------- claims about the anneal (2)

\* An iteration that reaches the stagnation check and leaves the window
\* flat: every entry the same non-zero fitness.
FlatWindowStep ==
    /\ pc = "loop"
    /\ held' # held
    /\ pc' # "panic"
    /\ exitClause' # "FitnessThreshold"
    /\ iteration >= config.WindowSize
    /\ config.MinImprovement > 0
    /\ WindowWorst(improvementWindow') = WindowBest(improvementWindow')
    /\ WindowWorst(improvementWindow') # 0

RecordsWithID(id) == {m \in 1..Len(microdata) : microdata[m].ID = id}

\* C23: in every returned result, at every attribute whose constraint is
\* exactly zero the returned aggregate is zero and no returned id is the id
\* of a record that is non-zero there.
C23_ZeroConstraintsInResult ==
    pc = "done" =>
        \A i \in 1..Len(constraint.Values) :
            constraint.Values[i] = 0 =>
                /\ synthPopResults.synthpop_totals[i] = 0
                /\ \A n \in 1..Len(synthPopResults.ids) :
                      \A m \in RecordsWithID(synthPopResults.ids[n]) :
                          microdata[m].Values[i] = 0

\* A result returned for an area with a zero constraint, from a pool that
\* holds a record non-zero there, after an accepted replacement.
C23_Witness ==
    /\ pc = "done"
    /\ \E i \in 1..Len(constraint.Values) :
          /\ constraint.Values[i] = 0
          /\ \E m \in 1..Len(microdata) : microdata[m].Values[i] # 0
    /\ Len(synthPopResults.ids) = MaxTotal
    /\ \E h \in 1..Len(held) : held[h].ids # held[1].ids

\* C24: every result carries the id of the area that was annealed and
\* exactly N ids, each of them the identifier of a record of the pool.
C24_ResultCarriesAreaAndNIds ==
    pc = "done" =>
        /\ synthPopResults.area = constraint.ID
        /\ Len(synthPopResults.ids) = constraint.Total
        /\ \A n \in 1..Len(synthPopResults.ids) :
              RecordsWithID(synthPopResults.ids[n]) # {}

\* A result of the largest population count with a record selected twice.
C24_Witness ==
    /\ pc = "done"
    /\ synthPopResults.area = "E01"
    /\ Len(synthPopResults.ids) = MaxTotal
    /\ \E n1, n2 \in 1..Len(synthPopResults.ids) :
          n1 # n2 /\ synthPopResults.ids[n1] = synthPopResults.ids[n2]

\* C28: the selection, and the best selection kept, hold exactly N indices
\* of the pool after initPopulation and after every iteration.
C28_SelectionHoldsNIndices ==
    Initialised =>
        /\ Len(synthPopIDs) = constraint.Total
        /\ Len(bestSynthPopIDs) = constraint.Total
        /\ \A k \in 1..Len(synthPopIDs) : synthPopIDs[k] \in 1..Len(microdata)
        /\ \A h \in 1..Len(held) : Len(held[h].ids) = constraint.Total

\* A selection of the largest population count right after an accepted
\* replacement.
C28_Witness ==
    /\ pc = "loop"
    /\ iteration >= 1
    /\ lastReplace.kind = "accepted"
    /\ Len(synthPopIDs) = MaxTotal

\* ------------------------------------ claims about the library functions

\* C25: applied to a pair of equal-length non-negative vectors, each of
\* the five divergences returns a value >= 0.
C25_DivergencesNonNegative ==
    outcome.fn = "Distance" => (outcome.ab >= 0 /\ outcome.ba >= 0)

\* C26: EuclideanDistance and ManhattanDistance are symmetric,
\* d(a, b) = d(b, a).
C26_EuclideanManhattanSymmetric ==
    (outcome.fn = "Distance" /\ outcome.metric \in {EUCLIDEAN, MANHATTEN})
        => outcome.ab = outcome.ba

\* Both distances applied to two different vectors of the largest length.
C26_Witness ==
    /\ outcome.fn = "Distance"
    /\ outcome.metric = EUCLIDEAN
    /\ Len(vecA) = MaxLen
    /\ \A i \in 1..MaxLen : vecA[i] # vecB[i]
    /\ outcome.ab > 0

\* C27: isValidMicrodata(record, constraint) is true exactly when the
\* record is zero at every attribute whose constraint is zero; in
\* particular constraints that are all non-zero make every record valid.
C27_ValidIffZeroWhereConstraintZero ==
    outcome.fn = "isValidMicrodata" =>
        /\ outcome.valid <=>
               \A i \in 1..Len(vecB) : vecB[i] = 0 => vecA[i] = 0
        /\ (\A i \in 1..Len(vecB) : vecB[i] # 0) => outcome.valid

\* A record found not valid: zero constraint and negative value at one
\* attribute, non-zero constraint at another.
C27_Witness ==
    /\ outcome.fn = "isValidMicrodata"
    /\ ~outcome.valid
    /\ \E i, j \in 1..Len(vecB) :
          vecB[i] = 0 /\ vecA[i] < 0 /\ vecB[j] # 0 /\ vecA[j] # 0

\* ------------------------------------------- claims about the anneal (3)

\* C29: the change budget counts consecutive non-accepted moves: an
\* iteration whose proposal is accepted restarts the count, so that the
\* full budget config.Change is left after it.
C29_AcceptanceRestartsBudget ==
    [][(pc = "loop" /\ pc' = "loop" /\ held' # held
           /\ lastReplace'.kind = "accepted")
          => changes' = config.Change]_vars

\* ------------------------------------------------- claims about cliMain

\* C30: a configuration whose Distance name is not recognised is rejected
\* before any anneal: parallelRun is never called with such a
\* configuration.
C30_UnrecognisedDistanceRejected ==
    \A n \in 1..Len(cliRun) : cliRun[n].Distance \in ValidMetrics

\* ------------------------------------------- claims about the anneal (4)

CheckRuns ==
    /\ pc = "loop"
    /\ held' # held
    /\ pc' # "panic"
    /\ exitClause' # "FitnessThreshold"
    /\ iteration >= config.WindowSize

\* r < num / den and r >= num / den for the relative range
\* r = (wmax - wmin) / wmax of window w, wmax # 0.
RangeBelow(w, num, den) ==
    LET wmax == WindowWorst(w)
        wmin == WindowBest(w)
    IN  \/ wmax > 0 /\ (wmax - wmin) * den < num * wmax
        \/ wmax < 0 /\ (wmax - wmin) * den > num * wmax

RangeAtLeast(w, num, den) ==
    LET wmax == WindowWorst(w)
        wmin == WindowBest(w)
    IN  \/ wmax > 0 /\ (wmax - wmin) * den >= num * wmax
        \/ wmax < 0 /\ (wmax - wmin) * den <= num * wmax

\* C32: in a pass where the stagnation check runs: with
\* MinImprovement/10 <= r < MinImprovement the temperature becomes
\* max(T*(1+ReheatFactor), 0.1*InitialTemp), is cooled once and the anneal
\* continues; with r < MinImprovement/10 the anneal ends in that pass; with
\* r >= MinImprovement only the cooling is applied.
C32_StagnationBranches ==
    [][CheckRuns =>
         LET w == improvementWindow'
             mi == config.MinImprovement
             raised == IF (temp * (TempScale + config.ReheatFactor)) \div TempScale
                              > config.InitialTemp \div 10
                       THEN (temp * (TempScale + config.ReheatFactor)) \div TempScale
                       ELSE config.InitialTemp \div 10
         IN  /\ (RangeAtLeast(w, mi, 10 * TempScale) /\ RangeBelow(w, mi, TempScale))
                    => (/\ temp' = (raised * config.CoolingRate) \div TempScale
                        /\ pc' = "loop")
             /\ RangeBelow(w, mi, 10 * TempScale)
                    => (pc' = "exit" /\ exitClause' = "stagnation")
             /\ RangeAtLeast(w, mi, TempScale)
                    => (/\ temp' = (temp * config.CoolingRate) \div TempScale
                        /\ pc' = "loop")]_vars

\* A pass that reheated, cooled and went on.
C32_Witness ==
    /\ pc = "loop"
    /\ lastReplace.kind # "none"
    /\ lastReplace.checked
    /\ config.MinImprovement > 0
    /\ RangeAtLeast(improvementWindow, config.MinImprovement, 10 * TempScale)
    /\ RangeBelow(improvementWindow, config.MinImprovement, TempScale)
    /\ temp = (Reheat(lastReplace.temp, config) * config.CoolingRate) \div TempScale

\* A pass that only cooled.
C32_WitnessCoolOnly ==
    /\ pc = "loop"
    /\ lastReplace.kind # "none"
    /\ lastReplace.checked
    /\ config.MinImprovement > 0
    /\ RangeAtLeast(improvementWindow, config.MinImprovement, TempScale)

\* C33: when every fitness in the window is 0 the relative range counts as
\* 0 in the stagnation check: with MinImprovement > 0 the pass reheats and
\* the anneal ends by deep stagnation.
C33_ZeroWindowEndsAnneal ==
    [][(/\ CheckRuns
        /\ config.MinImprovement > 0
        /\ WindowWorst(improvementWindow') = 0
        /\ WindowBest(improvementWindow') = 0)
          => (temp' > temp /\ pc' = "exit" /\ exitClause' = "stagnation")]_vars

\* The last pass of the loop got as far as the stagnation check: it did
\* not break on the fitness threshold and did not panic.
LastPassReachedCheck ==
    /\ lastReplace.kind # "none"
    /\ pc # "panic"
    /\ exitClause # "FitnessThreshold"

\* C34: the stagnation check is evaluated in every pass from the
\* W-th on, the first pass counted as 1, and in no earlier pass.
C34_CheckFromWthIteration ==
    LastPassReachedCheck =>
        (lastReplace.checked <=> lastReplace.iteration + 1 >= config.WindowSize)

\* C35: a pass of the loop that ends with fitness >= best.fitness leaves
\* the best snapshot (aggregate copy, selection copy, best fitness) as it
\* was, whatever replace did to the aggregate and the selection.
C35_SnapshotKeptWithoutImprovement ==
    [][(pc = "loop" /\ held' # held /\ fitness' >= bestFitness)
          => /\ bestFitness' = bestFitness
             /\ bestSynthPopTotals' = bestSynthPopTotals
             /\ bestSynthPopIDs' = bestSynthPopIDs]_vars

\* After a rejected proposal the aggregate differs from the snapshot.
C35_Witness ==
    /\ pc = "loop"
    /\ lastReplace.kind = "rejected"
    /\ fitness >= bestFitness
    /\ synthPopTotals # bestSynthPopTotals

\* C36: for every WindowSize W >= 1 the window keeps W entries and every
\* write to it uses an index in [0, W): whenever a pass of the loop is
\* about to run, the index of its write is in that range.
C36_WindowIndexInRange ==
    (Initialised /\ config.WindowSize >= 1) =>
        /\ DOMAIN improvementWindow = 0..(config.WindowSize - 1)
        /\ (pc = "loop" /\ LoopGuard) => windowIndex \in 0..(config.WindowSize - 1)

IndicesOf(ids) ==
    [n \in 1..Len(ids) |-> CHOOSE m \in 1..Len(microdata) : microdata[m].ID = ids[n]]

\* C40: the returned result is self-consistent: at every attribute its
\* synthpop_totals is the sum of the values of the records listed in its
\* ids (the exact sum, or the float64 sum taken in the order of the ids).
C40_ResultTotalsAreSumOfIds ==
    pc = "done" =>
        LET res == synthPopResults
            sel == IndicesOf(res.ids)
        IN  \/ \A i \in 1..Len(res.synthpop_totals) :
                  res.synthpop_totals[i] = ExactSum(microdata, sel, Len(sel), i)
            \/ res.synthpop_totals =
                  TotalsOf(microdata, sel, Len(sel), Len(res.synthpop_totals))

\* A step that executes close(jobs), and one that executes
\* close(resultsChan).
ClosesJobs == pcCoord = "feed" /\ pcCoord' = "waitWorkers"

ClosesResults == pcCoord = "waitWorkers" /\ pcCoord' = "waitWriter"

AllWorkersExited == \A w \in 1..numWorkers : pcWorker[w] = "done"

\* C37: in every interleaving of parallelRun, shutdown after a sink error
\* included, jobs and resultsChan are each closed exactly once (a close
\* finds its channel open, a closed channel stays closed, and both are
\* closed when parallelRun returns), resultsChan is closed only after every
\* worker has exited, and nothing is sent on a closed channel.
C37_ChannelsClosedOnceAfterSenders ==
    [][/\ ClosesJobs => ~jobsClosed /\ jobsClosed'
       /\ ClosesResults => ~resultsClosed /\ resultsClosed'
       /\ jobsClosed => jobsClosed' /\ ~ClosesJobs
       /\ resultsClosed => resultsClosed' /\ ~ClosesResults
       /\ jobsClosed' /\ ~jobsClosed => ClosesJobs
       /\ resultsClosed' /\ ~resultsClosed => ClosesResults /\ AllWorkersExited
       /\ resultsClosed => pcWorker' = pcWorker
       /\ jobsClosed => Len(jobs') <= Len(jobs)
       /\ resultsClosed => Len(resultsChan') <= Len(resultsChan)
       /\ pcCoord' = "returned" => jobsClosed' /\ resultsClosed']_vars

\* parallelRun has shut down after a sink error that reached it while areas
\* were still pending, with both channels closed and a result left unread.
C37_Witness ==
    /\ pcCoord = "returned"
    /\ returned # NoError
    /\ feedIndex <= Len(constraints)
    /\ jobsClosed
    /\ resultsClosed
    /\ resultsChan # <<>>
    /\ numWorkers = MaxCPU

\* C38: when parallelRun returns, with or without an error, every goroutine
\* it started has terminated: the workers, the writer and the progress
\* reporter.
C38_NoGoroutineOutlivesReturn ==
    pcCoord = "returned" =>
        /\ \A w \in 1..numWorkers : pcWorker[w] = "done"
        /\ pcWriter = "done"
        /\ pcReporter = "done"

\* When parallelRun returns, the workers and the writer have terminated.
C38_WorkersAndWriterExited ==
    pcCoord = "returned" =>
        /\ \A w \in 1..numWorkers : pcWorker[w] = "done"
        /\ pcWriter = "done"

====
